---- MODULE Spec2Model ----
(***************************************************************************)
(* Model of the voice Handler of src/src/voice/handler.rs: the per-guild   *)
(* connection state, the command channel to the voice task, the respawn of *)
(* that task when a send fails, and the session update published over the  *)
(* gateway WebSocket sender.                                               *)
(*                                                                         *)
(* Every method of Handler is an operator from a handler record to the     *)
(* handler record it leaves behind, so that a method calling another one   *)
(* (update_server -> connect -> send -> update) is modelled by the same    *)
(* nesting.  An action applies one public method, or one step of the       *)
(* environment (the voice task, the consumer of the WebSocket sender).     *)
(***************************************************************************)
EXTENDS Integers, Sequences, FiniteSets, TLC

\* ---------------------------------------------------------------- bounds
\* Total number of calls of Handler::send in one behaviour.
MaxSends == 2

\* ---------------------------------------------------------------- values
\* Option::None, for every Option<_> field.
None == "None"

ChannelIds == {"C1", "C2"}
GuildIds == {"G1"}
\* The user a handler is made for is U1; U2 is another user of the guild.
UserIds == {"U1", "U2"}
Endpoints == {"ep1"}
SessionIds == {"sid1"}
Tokens == {"tok1", "tok2"}
Receivers == {"recv1"}
Sources == {"src1"}
Bitrates == {"Auto"}

Option(S) == S \cup {None}

VARIABLES
    \* fields of struct Handler
    channel_id, endpoint, guild_id, self_deaf, self_mute, sender, session_id,
    token, user_id, ws,
    \* the receiving half of the channel `sender` writes to, held by the
    \* task started with it: whether it is still alive, and the statuses
    \* sent and not yet received
    rx_open, queue,
    \* the channels a task was started for with tasks::start, in order
    started,
    \* whether the receiving half of `ws` is still alive
    ws_open,
    \* whether the Handler was dropped
    dropped,
    \* bookkeeping of the statuses passed to send: how many so far (the
    \* n-th one is numbered n), which were received by which task, which
    \* were dropped with a receiving half
    nsent, received, lost,
    \* the call in progress, from the moment the method ran until it has
    \* returned to its caller (Idle): the method with its arguments, the
    \* handler record before it, the calls it made in order, its result
    op, pre, ev, ret

vars == <<channel_id, endpoint, guild_id, self_deaf, self_mute, sender,
          session_id, token, user_id, ws, rx_open, queue, started, ws_open,
          dropped, nsent, received, lost, op, pre, ev, ret>>

\* ------------------------------------------------------------- VoiceStatus
Connect(info) == [type |-> "Connect", info |-> info]
Disconnect == [type |-> "Disconnect"]
SetReceiver(r) == [type |-> "SetReceiver", receiver |-> r]
AddSender(p) == [type |-> "AddSender", player |-> p]
SetSender(p) == [type |-> "SetSender", player |-> p]
SetBitrate(b) == [type |-> "SetBitrate", bitrate |-> b]
Mute(m) == [type |-> "Mute", mute |-> m]

ConnectionInfo(e, g, s, t, u) ==
    [endpoint |-> e, guild_id |-> g, session_id |-> s, token |-> t, user_id |-> u]

\* Audio::new(source) behind Arc<Mutex<_>>: the player handle of a source.
Audio(source) == source

\* --------------------------------------------------------- handler record
\* The handler and the two channels it writes to, as one record; ev and
\* ret start empty for the operation about to run.
Self ==
    [channel_id |-> channel_id, endpoint |-> endpoint,
     self_deaf |-> self_deaf, self_mute |-> self_mute, sender |-> sender,
     session_id |-> session_id, token |-> token,
     ws |-> ws, ws_open |-> ws_open,
     rx_open |-> rx_open, queue |-> queue, started |-> started,
     nsent |-> nsent, ev |-> <<>>, ret |-> "()"]

\* The "d" object, were the two flags to change places.
Envelope_SwapsFlags(s) ==
    [channel_id |-> s.channel_id, guild_id |-> guild_id,
     self_deaf |-> s.self_mute, self_mute |-> s.self_deaf]

\* The "d" object of the JSON map Handler::update builds.
Envelope(s) ==
    [channel_id |-> s.channel_id, guild_id |-> guild_id,
     self_deaf |-> s.self_deaf, self_mute |-> s.self_mute]

\* update, were a failed send on ws to make the handler give ws up.
update_DropsDeadWs(s) ==
    IF s.ws # None /\ ~s.ws_open
    THEN [s EXCEPT !.ws = None,
                   !.ev = Append(@, [k |-> "update", d |-> Envelope(s),
                                     out |-> "err"])]
    ELSE [s EXCEPT !.ev = Append(@, [k |-> "update", d |-> Envelope(s),
                                     out |-> IF s.ws = None THEN "none"
                                             ELSE "ok"])]

\* Handler::update: nothing without ws; else one unbounded_send on ws whose
\* result is discarded.  The call is recorded with what became of the map:
\* "none" (standalone), "ok" (queued on ws), "err" (ws has no receiver).
update(s) ==
    [s EXCEPT !.ev = Append(@, [k |-> "update", d |-> Envelope(s),
                                out |-> IF s.ws = None THEN "none"
                                        ELSE IF s.ws_open THEN "ok"
                                        ELSE "err"])]

\* send, were the status handed back by the failed send not sent again.
send_DropsInFlight(s, status) ==
    LET n == s.nsent + 1
        item == [id |-> n, status |-> status]
    IN  IF s.rx_open
        THEN [s EXCEPT !.queue = Append(@, item),
                       !.nsent = n,
                       !.ev = Append(@, [k |-> "send", chan |-> s.sender,
                                         status |-> status])]
        ELSE LET tx == s.sender + 1
             IN  update([s EXCEPT !.sender = tx,
                                  !.rx_open = TRUE,
                                  !.queue = <<>>,
                                  !.started = Append(@, tx),
                                  !.nsent = n,
                                  !.ev = @ \o <<[k |-> "send", chan |-> tx,
                                                 status |-> status],
                                                [k |-> "start", chan |-> tx]>>])

\* send, were the result of unbounded_send discarded.
send_IgnoresError(s, status) ==
    LET n == s.nsent + 1
        item == [id |-> n, status |-> status]
    IN  IF s.rx_open
        THEN [s EXCEPT !.queue = Append(@, item),
                       !.nsent = n,
                       !.ev = Append(@, [k |-> "send", chan |-> s.sender,
                                         status |-> status])]
        ELSE [s EXCEPT !.nsent = n]

\* send, were the status sent on the fresh channel once before and once
\* after the task is started.
send_SendsAgain(s, status) ==
    LET n == s.nsent + 1
        item == [id |-> n, status |-> status]
    IN  IF s.rx_open
        THEN [s EXCEPT !.queue = Append(@, item),
                       !.nsent = n,
                       !.ev = Append(@, [k |-> "send", chan |-> s.sender,
                                         status |-> status])]
        ELSE LET tx == s.sender + 1
             IN  update([s EXCEPT !.sender = tx,
                                  !.rx_open = TRUE,
                                  !.queue = <<item, item>>,
                                  !.started = Append(@, tx),
                                  !.nsent = n,
                                  !.ev = @ \o <<[k |-> "send", chan |-> tx,
                                                 status |-> status],
                                                [k |-> "start", chan |-> tx]>>])

\* Handler::send: unbounded_send on the current sender; when it fails, a
\* fresh channel is installed, the returned status is sent on it, a task is
\* started on its receiving half, and update() is called.
send(s, status) ==
    LET n == s.nsent + 1
        item == [id |-> n, status |-> status]
    IN  IF s.rx_open
        THEN [s EXCEPT !.queue = Append(@, item),
                       !.nsent = n,
                       !.ev = Append(@, [k |-> "send", chan |-> s.sender,
                                         status |-> status])]
        ELSE LET tx == s.sender + 1
             IN  update([s EXCEPT !.sender = tx,
                                  !.rx_open = TRUE,
                                  !.queue = <<item>>,
                                  !.started = Append(@, tx),
                                  !.nsent = n,
                                  !.ev = @ \o <<[k |-> "send", chan |-> tx,
                                                 status |-> status],
                                                [k |-> "start", chan |-> tx]>>])

\* connect, were the three checked with && in place of ||.
connect_AllAbsent(s) ==
    IF s.endpoint = None /\ s.session_id = None /\ s.token = None
    THEN [s EXCEPT !.ret = "false"]
    ELSE [send(s, Connect(ConnectionInfo(s.endpoint, guild_id, s.session_id,
                                         s.token, user_id)))
            EXCEPT !.ret = "true"]

\* Handler::connect
connect(s) ==
    IF s.endpoint = None \/ s.session_id = None \/ s.token = None
    THEN [s EXCEPT !.ret = "false"]
    ELSE [send(s, Connect(ConnectionInfo(s.endpoint, guild_id, s.session_id,
                                         s.token, user_id)))
            EXCEPT !.ret = "true"]

\* deafen, were it to tell the task as mute does.
deafen_SendsCommand(s, deaf) ==
    LET s1 == [s EXCEPT !.self_deaf = deaf]
    IN  IF s1.channel_id # None THEN send(update(s1), Mute(deaf)) ELSE s1

\* Handler::deafen
deafen(s, deaf) ==
    LET s1 == [s EXCEPT !.self_deaf = deaf]
    IN  IF s1.channel_id # None THEN update(s1) ELSE s1

\* Handler::send_join
send_join(s) == IF s.channel_id = None THEN s ELSE update(s)

\* Handler::join
join(s, c) == send_join([s EXCEPT !.channel_id = c])

\* leave, without the check that the handler is in a channel.
leave_Unguarded(s) ==
    update(send([s EXCEPT !.channel_id = None], Disconnect))

\* leave, were it to forget the settings.
leave_ForgetsSettings(s) ==
    IF s.channel_id # None
    THEN update(send([s EXCEPT !.channel_id = None, !.self_deaf = FALSE,
                               !.self_mute = FALSE], Disconnect))
    ELSE s

\* Handler::leave
leave(s) ==
    IF s.channel_id # None
    THEN update(send([s EXCEPT !.channel_id = None], Disconnect))
    ELSE s

\* Handler::listen
listen(s, receiver) == send(s, SetReceiver(receiver))

\* mute, were the task told before the update is published.
mute_SendThenUpdate(s, m) ==
    LET s1 == [s EXCEPT !.self_mute = m]
    IN  IF s1.channel_id # None THEN update(send(s1, Mute(m))) ELSE s1

\* mute, were a standalone handler to keep the flag to itself.
mute_NotStandalone(s, m) ==
    IF s.ws = None
    THEN [s EXCEPT !.self_mute = m]
    ELSE LET s1 == [s EXCEPT !.self_mute = m]
         IN  IF s1.channel_id # None
             THEN send(update(s1), Mute(m))
             ELSE s1

\* Handler::mute
mute(s, m) ==
    LET s1 == [s EXCEPT !.self_mute = m]
    IN  IF s1.channel_id # None THEN send(update(s1), Mute(m)) ELSE s1

\* Handler::play_returning
play_returning(s, source) ==
    LET player == Audio(source)
    IN  [send(s, AddSender(player)) EXCEPT !.ret = player]

\* Handler::play
play(s, source) == [play_returning(s, source) EXCEPT !.ret = "()"]

\* Handler::play_only
play_only(s, source) ==
    LET player == Audio(source)
    IN  [send(s, SetSender(player)) EXCEPT !.ret = player]

\* Handler::set_bitrate
set_bitrate(s, bitrate) == send(s, SetBitrate(bitrate))

\* Handler::stop
stop(s) == send(s, SetSender(None))

\* switch_to, without the check for the channel the handler is in.
switch_to_Always(s, c) == update([s EXCEPT !.channel_id = c])

\* Handler::switch_to
switch_to(s, c) ==
    IF s.channel_id = c THEN s ELSE update([s EXCEPT !.channel_id = c])

\* update_server, were connect() called only when endpoint or token changed.
update_server_Dedup(s, ep, tok) ==
    LET s1 == [s EXCEPT !.token = tok]
    IN  IF ep # None
        THEN LET s2 == [s1 EXCEPT !.endpoint = ep]
             IN  IF s2.session_id # None /\ (s.endpoint # ep \/ s.token # tok)
                 THEN [connect(s2) EXCEPT !.ret = "()"]
                 ELSE s2
        ELSE leave(s1)

\* update_server, were an absent endpoint recorded like a present one.
update_server_ClearsEndpoint(s, ep, tok) ==
    LET s1 == [s EXCEPT !.token = tok, !.endpoint = ep]
    IN  IF ep # None
        THEN IF s1.session_id # None
             THEN [connect(s1) EXCEPT !.ret = "()"]
             ELSE s1
        ELSE leave(s1)

\* update_server, were the token recorded only along with an endpoint.
update_server_TokenWithEndpoint(s, ep, tok) ==
    IF ep # None
    THEN LET s2 == [s EXCEPT !.token = tok, !.endpoint = ep]
         IN  IF s2.session_id # None
             THEN [connect(s2) EXCEPT !.ret = "()"]
             ELSE s2
    ELSE leave(s)

\* Handler::update_server
update_server(s, ep, tok) ==
    LET s1 == [s EXCEPT !.token = tok]
    IN  IF ep # None
        THEN LET s2 == [s1 EXCEPT !.endpoint = ep]
             IN  IF s2.session_id # None
                 THEN [connect(s2) EXCEPT !.ret = "()"]
                 ELSE s2
        ELSE leave(s1)

\* update_state, without the call of connect().
update_state_NoConnect(s, vs) ==
    IF user_id # vs.user_id
    THEN s
    ELSE LET s1 == [s EXCEPT !.channel_id = vs.channel_id]
         IN  IF vs.channel_id # None
             THEN [s1 EXCEPT !.session_id = vs.session_id]
             ELSE leave(s1)

\* update_state, without the check of the VoiceState's user.
update_state_NoFilter(s, vs) ==
    LET s1 == [s EXCEPT !.channel_id = vs.channel_id]
    IN  IF vs.channel_id # None
        THEN LET s2 == [s1 EXCEPT !.session_id = vs.session_id]
             IN  IF s2.endpoint # None /\ s2.token # None
                 THEN [connect(s2) EXCEPT !.ret = "()"]
                 ELSE s2
        ELSE leave(s1)

\* Handler::update_state, on a VoiceState {user_id, channel_id, session_id}
update_state(s, vs) ==
    IF user_id # vs.user_id
    THEN s
    ELSE LET s1 == [s EXCEPT !.channel_id = vs.channel_id]
         IN  IF vs.channel_id # None
             THEN LET s2 == [s1 EXCEPT !.session_id = vs.session_id]
                  IN  IF s2.endpoint # None /\ s2.token # None
                      THEN [connect(s2) EXCEPT !.ret = "()"]
                      ELSE s2
             ELSE leave(s1)

VoiceStates ==
    [user_id : UserIds, channel_id : Option(ChannelIds), session_id : SessionIds]

\* The method named by o, with the arguments o carries, applied to s.
Apply(o, s) ==
    CASE o.name = "connect" -> connect(s)
      [] o.name = "deafen" -> deafen(s, o.deaf)
      [] o.name = "join" -> join(s, o.channel_id)
      [] o.name = "leave" -> leave(s)
      [] o.name = "listen" -> listen(s, o.receiver)
      [] o.name = "mute" -> mute(s, o.mute)
      [] o.name = "play" -> play(s, o.source)
      [] o.name = "play_returning" -> play_returning(s, o.source)
      [] o.name = "play_only" -> play_only(s, o.source)
      [] o.name = "set_bitrate" -> set_bitrate(s, o.bitrate)
      [] o.name = "stop" -> stop(s)
      [] o.name = "switch_to" -> switch_to(s, o.channel_id)
      [] o.name = "update_server" -> update_server(s, o.endpoint, o.token)
      [] o.name = "update_state" -> update_state(s, o.voice_state)
      [] o.name = "drop" -> leave(s)

\* ---------------------------------------------------------------- steps
\* The handler record s becomes the state, after operation o.
Install(s, o) ==
    /\ channel_id' = s.channel_id
    /\ endpoint' = s.endpoint
    /\ self_deaf' = s.self_deaf
    /\ self_mute' = s.self_mute
    /\ sender' = s.sender
    /\ session_id' = s.session_id
    /\ token' = s.token
    /\ ws' = s.ws
    /\ rx_open' = s.rx_open
    /\ queue' = s.queue
    /\ started' = s.started
    /\ nsent' = s.nsent
    /\ ev' = s.ev
    /\ ret' = s.ret
    /\ op' = o
    /\ pre' = Self
    /\ dropped' = (o.name = "drop")
    /\ UNCHANGED <<guild_id, user_id, ws_open, received, lost>>

\* No call is in progress.
Idle == [name |-> "idle"]

\* A method can be called on a handler that was not dropped, once the call
\* before it has returned.  A behaviour makes no further call once MaxSends
\* statuses went through send.
Callable == op = Idle /\ ~dropped /\ nsent < MaxSends

\* Handler::new_raw, through Handler::new (ws present) or
\* Handler::standalone (ws absent): one channel, one task started on it.
Init ==
    /\ channel_id = None
    /\ endpoint = None
    /\ guild_id \in GuildIds
    /\ self_deaf = FALSE
    /\ self_mute = FALSE
    /\ sender = 1
    /\ session_id = None
    /\ token = None
    /\ user_id = "U1"
    /\ ws \in {None, "ws"}
    /\ rx_open = TRUE
    /\ queue = <<>>
    /\ started = <<1>>
    /\ ws_open = TRUE
    /\ dropped = FALSE
    /\ nsent = 0
    /\ received = <<>>
    /\ lost = {}
    /\ op = Idle
    /\ pre = Self
    /\ ev = <<>>
    /\ ret = "()"

DoConnect == Callable /\ Install(connect(Self), [name |-> "connect"])

DoDeafen ==
    \E b \in BOOLEAN :
        Callable /\ Install(deafen(Self, b), [name |-> "deafen", deaf |-> b])

DoJoin ==
    \E c \in ChannelIds :
        Callable /\ Install(join(Self, c), [name |-> "join", channel_id |-> c])

DoLeave == Callable /\ Install(leave(Self), [name |-> "leave"])

DoListen ==
    \E r \in Option(Receivers) :
        Callable /\ Install(listen(Self, r), [name |-> "listen", receiver |-> r])

DoMute ==
    \E b \in BOOLEAN :
        Callable /\ Install(mute(Self, b), [name |-> "mute", mute |-> b])

DoPlay ==
    \E src \in Sources :
        Callable /\ Install(play(Self, src), [name |-> "play", source |-> src])

DoPlayReturning ==
    \E src \in Sources :
        Callable /\ Install(play_returning(Self, src),
                           [name |-> "play_returning", source |-> src])

DoPlayOnly ==
    \E src \in Sources :
        Callable /\ Install(play_only(Self, src),
                           [name |-> "play_only", source |-> src])

DoSetBitrate ==
    \E b \in Bitrates :
        Callable /\ Install(set_bitrate(Self, b),
                           [name |-> "set_bitrate", bitrate |-> b])

DoStop == Callable /\ Install(stop(Self), [name |-> "stop"])

DoSwitchTo ==
    \E c \in ChannelIds :
        Callable /\ Install(switch_to(Self, c),
                         [name |-> "switch_to", channel_id |-> c])

DoUpdateServer ==
    \E ep \in Option(Endpoints), tok \in Tokens :
        Callable /\ Install(update_server(Self, ep, tok),
                           [name |-> "update_server", endpoint |-> ep,
                            token |-> tok])

DoUpdateState ==
    \E vs \in VoiceStates :
        Callable /\ Install(update_state(Self, vs),
                           [name |-> "update_state", voice_state |-> vs])

\* Drop, were it to let the handler go without leave().
DoDrop_NoLeave ==
    /\ Callable
    /\ Install(Self, [name |-> "drop"])

\* Drop for Handler: leave(), then the handler is gone.
DoDrop ==
    /\ Callable
    /\ Install(leave(Self), [name |-> "drop"])

\* The call in progress returns to its caller.
Return ==
    /\ op # Idle
    /\ op' = Idle
    /\ pre' = Self
    /\ ev' = <<>>
    /\ ret' = "()"
    /\ UNCHANGED <<channel_id, endpoint, guild_id, self_deaf, self_mute,
                   sender, session_id, token, user_id, ws, rx_open, queue,
                   started, ws_open, dropped, nsent, received, lost>>

\* A step of the environment, between two calls: the handler record before
\* the next call is the one this step leaves.
EnvStep ==
    /\ op = Idle
    /\ pre' = Self'
    /\ UNCHANGED <<op, ev, ret>>

\* The task holding the receiving half takes the next status.
TaskRecv ==
    /\ rx_open
    /\ queue # <<>>
    /\ received' = Append(received, [id |-> Head(queue).id, chan |-> sender])
    /\ queue' = Tail(queue)
    /\ UNCHANGED <<channel_id, endpoint, guild_id, self_deaf, self_mute,
                   sender, session_id, token, user_id, ws, rx_open, started,
                   ws_open, dropped, nsent, lost>>
    /\ EnvStep

\* The task ends and drops the receiving half, and what is queued with it.
TaskExit ==
    /\ rx_open
    /\ rx_open' = FALSE
    /\ lost' = lost \cup {queue[i].id : i \in 1..Len(queue)}
    /\ queue' = <<>>
    /\ UNCHANGED <<channel_id, endpoint, guild_id, self_deaf, self_mute,
                   sender, session_id, token, user_id, ws, started, ws_open,
                   dropped, nsent, received>>
    /\ EnvStep

\* The receiving half of ws goes away.
WsExit ==
    /\ ws # None
    /\ ws_open
    /\ ws_open' = FALSE
    /\ UNCHANGED <<channel_id, endpoint, guild_id, self_deaf, self_mute,
                   sender, session_id, token, user_id, ws, rx_open, queue,
                   started, dropped, nsent, received, lost>>
    /\ EnvStep

Next ==
    \/ DoConnect
    \/ DoDeafen
    \/ DoJoin
    \/ DoLeave
    \/ DoListen
    \/ DoMute
    \/ DoPlay
    \/ DoPlayReturning
    \/ DoPlayOnly
    \/ DoSetBitrate
    \/ DoStop
    \/ DoSwitchTo
    \/ DoUpdateServer
    \/ DoUpdateState
    \/ DoDrop
    \/ Return
    \/ TaskRecv
    \/ TaskExit
    \/ WsExit

Spec == Init /\ [][Next]_vars

\* =========================================================== properties
\* The handler record as the call in progress leaves it.
Post == [Self EXCEPT !.ev = ev, !.ret = ret]

InCall == op # Idle

\* Kinds of calls a method made, in order.
Sends(e) == SelectSeq(e, LAMBDA x : x.k = "send")
Starts(e) == SelectSeq(e, LAMBDA x : x.k = "start")
Updates(e) == SelectSeq(e, LAMBDA x : x.k = "update")
\* The updates that put a map on ws (none does in standalone mode).
Published(e) == SelectSeq(e, LAMBDA x : x.k = "update" /\ x.out # "none")

\* The fields of the handler a caller can read, and the channel side.
Fields(s) ==
    <<s.channel_id, s.endpoint, s.self_deaf, s.self_mute, s.session_id, s.token>>
Channel(s) == <<s.sender, s.rx_open, s.queue, s.started, s.nsent>>

Complete(s) == s.endpoint # None /\ s.session_id # None /\ s.token # None

IsConnectOf(status, s) ==
    /\ status.type = "Connect"
    /\ status.info = [endpoint |-> s.endpoint, guild_id |-> guild_id,
                      session_id |-> s.session_id, token |-> s.token,
                      user_id |-> user_id]

QueueIds == {queue[i].id : i \in 1..Len(queue)}
ReceivedIds == {received[i].id : i \in 1..Len(received)}

\* ------------------------------------------------------------------ C1
\* C1: connect() with endpoint, session_id or token absent returns false,
\* makes no call (no send, no update) and changes no field; with all three
\* present it returns true and sends exactly one Connect, the last item of
\* the queue, built from the handler's current endpoint, session_id and
\* token and its guild_id and user_id, leaving the fields as they were.
C1_ConnectGating ==
    op.name = "connect" =>
        IF ~Complete(pre)
        THEN /\ ret = "false"
             /\ ev = <<>>
             /\ Fields(Post) = Fields(pre)
             /\ Channel(Post) = Channel(pre)
        ELSE /\ ret = "true"
             /\ Len(Sends(ev)) = 1
             /\ IsConnectOf(Sends(ev)[1].status, Post)
             /\ nsent = pre.nsent + 1
             /\ queue # <<>>
             /\ queue[Len(queue)] = [id |-> nsent, status |-> Sends(ev)[1].status]
             /\ Fields(Post) = Fields(pre)

C1_Witness ==
    /\ op.name = "connect"
    /\ ret = "true"
    /\ Len(queue) = 1
    /\ IsConnectOf(queue[1].status, Post)

\* ------------------------------------------------------------------ C2
\* C2: a call of update_server or update_state that leaves one of
\* endpoint, session_id, token absent sends no Connect; a call of either
\* that finds the three incomplete and leaves them complete sends exactly
\* one Connect, built from the three as the call leaves them.
C2_EdgeTriggeredConnect ==
    op.name \in {"update_server", "update_state"} =>
        /\ ~Complete(Post) =>
               \A i \in 1..Len(ev) :
                   ev[i].k = "send" => ev[i].status.type # "Connect"
        /\ (~Complete(pre) /\ Complete(Post)) =>
               /\ Len(Sends(ev)) = 1
               /\ IsConnectOf(Sends(ev)[1].status, Post)
               /\ queue[Len(queue)].status = Sends(ev)[1].status

\* update_server(Some(ep), tok) sent nothing, and the update_state that
\* follows it completes the three and sends the Connect.
C2_Witness ==
    /\ op.name = "update_state"
    /\ op.voice_state.user_id = user_id
    /\ op.voice_state.channel_id # None
    /\ pre.endpoint # None /\ pre.token # None /\ pre.session_id = None
    /\ pre.nsent = 0
    /\ Len(Sends(ev)) = 1
    /\ IsConnectOf(queue[1].status, Post)

\* ------------------------------------------------------------------ C3
\* C3: with session_id present, every update_server(Some(e), t) sends
\* exactly one Connect (built from e, the session_id and t), also when
\* endpoint and token already held e and t before the call.
C3_NoConnectDedup ==
    (op.name = "update_server" /\ op.endpoint # None /\ pre.session_id # None) =>
        /\ Len(Sends(ev)) = 1
        /\ Sends(ev)[1].status =
               Connect(ConnectionInfo(op.endpoint, guild_id, pre.session_id,
                                      op.token, user_id))
        /\ nsent = pre.nsent + 1
        /\ queue[Len(queue)] = [id |-> nsent, status |-> Sends(ev)[1].status]

\* The same update_server twice: two equal Connects wait in the queue.
C3_Witness ==
    /\ op.name = "update_server"
    /\ pre.endpoint = op.endpoint
    /\ pre.token = op.token
    /\ Len(queue) = 2
    /\ queue[1].status = queue[2].status
    /\ queue[2].status.type = "Connect"
    /\ queue[1].id # queue[2].id

\* ------------------------------------------------------------------ C4
\* C4 as claimed: after leave() channel_id is absent and a second leave()
\* changes nothing and makes no call; with channel_id absent before,
\* leave() made no call and changed nothing; with channel_id present
\* before, it sent exactly one Disconnect and called update() exactly once,
\* after the send, with channel_id absent.
C4_LeaveOnePublish ==
    op.name = "leave" =>
        /\ channel_id = None
        /\ leave(Post) = Post
        /\ pre.channel_id = None =>
               /\ ev = <<>>
               /\ Fields(Post) = Fields(pre)
               /\ Channel(Post) = Channel(pre)
        /\ pre.channel_id # None =>
               /\ Len(Sends(ev)) = 1
               /\ Sends(ev)[1].status = Disconnect
               /\ ev[1].k = "send"
               /\ Len(Updates(ev)) = 1
               /\ Updates(ev)[1].d.channel_id = None

\* C4, amended: as C4_LeaveOnePublish, but with channel_id present before
\* the call update() is called once after the Disconnect when the send
\* found the task's receiving half alive, and twice when it did not (the
\* respawn in send calls update() once, then leave() does); every one of
\* these updates carries channel_id absent.
C4_IdempotentLeave ==
    op.name = "leave" =>
        /\ channel_id = None
        /\ leave(Post) = Post
        /\ pre.channel_id = None =>
               /\ ev = <<>>
               /\ Fields(Post) = Fields(pre)
               /\ Channel(Post) = Channel(pre)
        /\ pre.channel_id # None =>
               /\ Len(Sends(ev)) = 1
               /\ Sends(ev)[1].status = Disconnect
               /\ ev[1].k = "send"
               /\ Len(Updates(ev)) = (IF pre.rx_open THEN 1 ELSE 2)
               /\ \A i \in 1..Len(Updates(ev)) :
                      Updates(ev)[i].d.channel_id = None
               /\ ev[Len(ev)].k = "update"
               /\ <<pre.endpoint, pre.self_deaf, pre.self_mute,
                    pre.session_id, pre.token>>
                  = <<endpoint, self_deaf, self_mute, session_id, token>>

\* leave() in a channel, with the task gone: Disconnect, respawn, two updates.
C4_Witness ==
    /\ op.name = "leave"
    /\ pre.channel_id # None
    /\ ~pre.rx_open
    /\ Len(Updates(ev)) = 2
    /\ queue = <<[id |-> nsent, status |-> Disconnect]>>

\* ------------------------------------------------------------------ C5
\* C5: update_state for another user's VoiceState changes no field of the
\* handler (channel_id, session_id, endpoint, token, self_deaf, self_mute,
\* sender), sends nothing and publishes nothing, whatever channel_id and
\* session_id the VoiceState carries.
C5_ForeignEventIgnored ==
    (op.name = "update_state" /\ op.voice_state.user_id # user_id) =>
        /\ Fields(Post) = Fields(pre)
        /\ Channel(Post) = Channel(pre)
        /\ ev = <<>>

\* Another user's VoiceState, carrying a channel and a session id the
\* handler does not hold, reached a handler that is in a channel.
C5_Witness ==
    /\ op.name = "update_state"
    /\ op.voice_state.user_id # user_id
    /\ op.voice_state.channel_id \notin {None, channel_id}
    /\ op.voice_state.session_id # session_id
    /\ channel_id # None
    /\ endpoint # None

\* ------------------------------------------------------------------ C6
\* The methods that are one call of send and nothing else that could
\* start a task or call update().
SendOnly ==
    {"listen", "play", "play_returning", "play_only", "set_bitrate", "stop",
     "connect"}

\* C6: a call that goes through send(X) while the receiving half of the
\* current channel is gone ends with a fresh channel installed as sender,
\* exactly one task started, on that channel, X as the only and first item
\* of its queue, and update() called by send right after (exactly one
\* update in a method that is a send and nothing else); a send that finds
\* the receiving half alive appends X to the queue, installs no channel,
\* starts no task and calls no update().
C6_RespawnKeepsCommand ==
    (InCall /\ Sends(ev) # <<>>) =>
        LET X == Sends(ev)[1].status
        IN  /\ Len(Sends(ev)) = 1
            /\ nsent = pre.nsent + 1
            /\ IF ~pre.rx_open
               THEN /\ sender = pre.sender + 1
                    /\ \A i \in 1..Len(pre.started) : pre.started[i] # sender
                    /\ started = Append(pre.started, sender)
                    /\ rx_open
                    /\ queue = <<[id |-> nsent, status |-> X]>>
                    /\ Starts(ev) = <<[k |-> "start", chan |-> sender]>>
                    /\ \E i \in 1..(Len(ev) - 2) :
                           /\ ev[i] = [k |-> "send", chan |-> sender, status |-> X]
                           /\ ev[i + 1].k = "start"
                           /\ ev[i + 2].k = "update"
                    /\ op.name \in SendOnly => Len(Updates(ev)) = 1 /\ Len(ev) = 3
               ELSE /\ sender = pre.sender
                    /\ started = pre.started
                    /\ rx_open
                    /\ queue = Append(pre.queue, [id |-> nsent, status |-> X])
                    /\ Starts(ev) = <<>>
                    /\ op.name \in SendOnly =>
                           ev = <<[k |-> "send", chan |-> sender, status |-> X]>>

\* A status was sent and received, the task went away, and the next send
\* installed a second channel holding only the status it was given.
C6_Witness ==
    /\ op.name \in SendOnly
    /\ ~pre.rx_open
    /\ received # <<>>
    /\ sender = 2
    /\ started = <<1, 2>>
    /\ Len(queue) = 1
    /\ queue[1].id = 2
    /\ Len(Updates(ev)) = 1

\* ------------------------------------------------------------------ C7
\* C7 as claimed: every status passed to send was received by a task or
\* is in the queue of the channel now installed.
C7_NoCommandLost ==
    \A i \in 1..nsent : i \in ReceivedIds \/ i \in QueueIds

\* C7, amended: every status passed to send was received by a task, or is
\* in the queue of the channel now installed, or was still queued when the
\* task holding its receiving half went away and was dropped with it,
\* exactly one of the three; the status a call has just passed to send is
\* in the queue of the channel now installed, also when send found the
\* receiving half gone.
C7_OnlyQueuedCommandsLost ==
    /\ \A i \in 1..nsent :
           /\ i \in ReceivedIds \/ i \in QueueIds \/ i \in lost
           /\ ~(i \in ReceivedIds /\ i \in QueueIds)
           /\ ~(i \in ReceivedIds /\ i \in lost)
           /\ ~(i \in QueueIds /\ i \in lost)
    /\ (InCall /\ nsent > pre.nsent) =>
           /\ nsent \in QueueIds
           /\ queue[Len(queue)].status = Sends(ev)[1].status

\* A status was dropped with its task, and the send after that, which
\* found the receiving half gone, left its own status in the new queue.
C7_Witness ==
    /\ InCall
    /\ lost = {1}
    /\ ~pre.rx_open
    /\ nsent = 2
    /\ QueueIds = {2}
    /\ sender = 2

\* ------------------------------------------------------------------ C8
\* C8: statuses are received in the order they were passed to send, by
\* every task and over all tasks, none twice; what is queued is in send
\* order and was sent after everything received so far; a task receives
\* only from the channel it was started on, and the first status the
\* replacement task can receive after a failed send of X is X.
C8_OrderAcrossRespawn ==
    /\ \A i, j \in 1..Len(received) :
           i < j => /\ received[i].id < received[j].id
                    /\ received[i].chan <= received[j].chan
    /\ \A i, j \in 1..Len(queue) : i < j => queue[i].id < queue[j].id
    /\ \A i \in 1..Len(received), j \in 1..Len(queue) :
           received[i].id < queue[j].id
    /\ \A i \in 1..Len(received) :
           received[i].chan \in {started[k] : k \in 1..Len(started)}
    /\ (InCall /\ Starts(ev) # <<>>) =>
           /\ queue[1].id = nsent
           /\ queue[1].status = Sends(ev)[1].status
           /\ \A i \in 1..Len(received) : received[i].chan < sender

\* The replacement task received X, the status of the failed send, and
\* then the status of the send after it.
C8_Witness ==
    /\ lost = {}
    /\ received = <<[id |-> 1, chan |-> 2], [id |-> 2, chan |-> 2]>>

\* ------------------------------------------------------------------ C9
\* C9: mute(flag) sets self_mute to flag and changes no other field; with
\* channel_id absent it makes no call; with channel_id present, ws present
\* and the task's receiving half alive, it makes exactly two calls:
\* update(), carrying self_mute = flag, and then send(Mute(flag)).
C9_MutePublishThenSend ==
    op.name = "mute" =>
        /\ self_mute = op.mute
        /\ <<channel_id, endpoint, self_deaf, session_id, token>>
           = <<pre.channel_id, pre.endpoint, pre.self_deaf, pre.session_id,
               pre.token>>
        /\ pre.channel_id = None => ev = <<>> /\ Channel(Post) = Channel(pre)
        /\ (pre.channel_id # None /\ ws # None /\ pre.rx_open) =>
               /\ Len(ev) = 2
               /\ ev[1].k = "update"
               /\ ev[1].out # "none"
               /\ ev[1].d = [channel_id |-> channel_id, guild_id |-> guild_id,
                             self_deaf |-> self_deaf, self_mute |-> op.mute]
               /\ ev[2] = [k |-> "send", chan |-> sender, status |-> Mute(op.mute)]
               /\ queue = Append(pre.queue, [id |-> nsent, status |-> Mute(op.mute)])

\* mute(true) in a channel, unmuted before, ws present, task alive.
C9_Witness ==
    /\ op.name = "mute"
    /\ op.mute
    /\ ~pre.self_mute
    /\ pre.channel_id # None
    /\ ws # None
    /\ pre.rx_open
    /\ Len(ev) = 2

\* ----------------------------------------------------------------- C10
\* C10: deafen(flag) sets self_deaf to flag, changes no other field, sends
\* nothing, leaves sender and the queue as they were and starts no task,
\* whether or not the task's receiving half is alive; it calls update()
\* once when channel_id is present and not at all otherwise, and a map is
\* put on ws exactly once iff channel_id is present and ws is.
C10_DeafenNoCommand ==
    op.name = "deafen" =>
        /\ self_deaf = op.deaf
        /\ <<channel_id, endpoint, self_mute, session_id, token>>
           = <<pre.channel_id, pre.endpoint, pre.self_mute, pre.session_id,
               pre.token>>
        /\ Channel(Post) = Channel(pre)
        /\ Sends(ev) = <<>>
        /\ Starts(ev) = <<>>
        /\ Len(Updates(ev)) = (IF pre.channel_id # None THEN 1 ELSE 0)
        /\ Len(Published(ev)) =
               (IF pre.channel_id # None /\ ws # None THEN 1 ELSE 0)
        /\ \A i \in 1..Len(ev) : ev[i].d.self_deaf = op.deaf

\* deafen(true) in a channel after the task went away: one map on ws, and
\* still no task started.
C10_Witness ==
    /\ op.name = "deafen"
    /\ op.deaf
    /\ pre.channel_id # None
    /\ ws # None
    /\ ~rx_open
    /\ Len(Published(ev)) = 1
    /\ started = <<1>>

\* ----------------------------------------------------------------- C11
\* C11: switch_to(c) with channel_id equal to c changes nothing and makes
\* no call; with channel_id absent or another channel it sets channel_id
\* to c, changes no other field, calls update() exactly once (one map on
\* ws when ws is present) and sends nothing: no Connect, no Disconnect,
\* no task started.
C11_SwitchTo ==
    op.name = "switch_to" =>
        IF pre.channel_id = op.channel_id
        THEN /\ ev = <<>>
             /\ Fields(Post) = Fields(pre)
             /\ Channel(Post) = Channel(pre)
        ELSE /\ channel_id = op.channel_id
             /\ <<endpoint, self_deaf, self_mute, session_id, token>>
                = <<pre.endpoint, pre.self_deaf, pre.self_mute,
                    pre.session_id, pre.token>>
             /\ Channel(Post) = Channel(pre)
             /\ Len(ev) = 1
             /\ ev[1].k = "update"
             /\ ev[1].d.channel_id = op.channel_id
             /\ Len(Published(ev)) = (IF ws # None THEN 1 ELSE 0)

\* switch_to from one channel to the other, with credentials complete:
\* one map on ws and nothing sent to the task.
C11_Witness ==
    /\ op.name = "switch_to"
    /\ pre.channel_id \in ChannelIds \ {op.channel_id}
    /\ Complete(pre)
    /\ Len(Published(ev)) = 1
    /\ nsent = pre.nsent

\* ----------------------------------------------------------------- C12
\* The handler record with ws taken away, and every update() in ev
\* recorded as the no-op it is without ws.
Standalone(s) ==
    [s EXCEPT !.ws = None,
              !.ev = [i \in DOMAIN @ |->
                         IF @[i].k = "update"
                         THEN [@[i] EXCEPT !.out = "none"] ELSE @[i]]]

\* C12: every call on a handler gives what the same call gives on the
\* same handler without ws: the same fields, return value, commands sent
\* and on the queue, channels made and tasks started, and the same
\* update() calls with the same maps, which differ only in whether a map
\* went on ws; a handler without ws puts nothing on ws.  The task's own
\* steps do not read ws, so equal call sequences stay equal step by step.
C12_StandaloneEquivalence ==
    InCall =>
        /\ Standalone(Post) = Apply(op, Standalone(pre))
        /\ ws = None => Published(ev) = <<>>

\* A call with ws present that found the task gone: it sent its command on
\* a fresh channel, started a task and put a map on ws.
C12_Witness ==
    /\ InCall
    /\ ws # None
    /\ ~pre.rx_open
    /\ Starts(ev) # <<>>
    /\ Published(ev) # <<>>
    /\ Standalone(Post) # Post

\* ----------------------------------------------------------------- C13
\* C13 as claimed: dropping a handler with channel_id present sends exactly
\* one Disconnect, followed by exactly one update() with channel_id absent,
\* and returns with the Disconnect still on the queue; dropping a handler
\* with channel_id absent makes no call.
C13_DropOnePublish ==
    op.name = "drop" =>
        /\ dropped
        /\ channel_id = None
        /\ pre.channel_id = None =>
               /\ ev = <<>>
               /\ Channel(Post) = Channel(pre)
        /\ pre.channel_id # None =>
               /\ Len(Sends(ev)) = 1
               /\ Sends(ev)[1].status = Disconnect
               /\ ev[1].k = "send"
               /\ queue # <<>>
               /\ queue[Len(queue)] = [id |-> nsent, status |-> Disconnect]
               /\ nsent \notin ReceivedIds
               /\ Len(Updates(ev)) = 1
               /\ Updates(ev)[1].d.channel_id = None

\* C13, amended: as C13_DropOnePublish, but with channel_id present before
\* the drop update() is called once after the Disconnect when the send
\* found the task's receiving half alive, and twice when it did not (the
\* respawn in send calls update() once, then leave() does); every one of
\* these updates carries channel_id absent.
C13_DropLeavesOnce ==
    op.name = "drop" =>
        /\ dropped
        /\ channel_id = None
        /\ pre.channel_id = None =>
               /\ ev = <<>>
               /\ Channel(Post) = Channel(pre)
        /\ pre.channel_id # None =>
               /\ Len(Sends(ev)) = 1
               /\ Sends(ev)[1].status = Disconnect
               /\ ev[1].k = "send"
               /\ queue # <<>>
               /\ queue[Len(queue)] = [id |-> nsent, status |-> Disconnect]
               /\ nsent \notin ReceivedIds
               /\ Len(Updates(ev)) = (IF pre.rx_open THEN 1 ELSE 2)
               /\ \A i \in 1..Len(Updates(ev)) :
                      Updates(ev)[i].d.channel_id = None
               /\ ev[Len(ev)].k = "update"

\* A handler in a channel is dropped while its task still has an earlier
\* command to receive: the Disconnect is queued behind it and the handler
\* is gone.
C13_Witness ==
    /\ op.name = "drop"
    /\ dropped
    /\ pre.channel_id # None
    /\ pre.rx_open
    /\ Len(queue) = 2
    /\ queue[2].status = Disconnect
    /\ Len(Published(ev)) = 1

\* ----------------------------------------------------------------- C14
\* The handler record with the receiving half of ws alive, and every
\* failed send on ws in ev recorded as one that succeeded.
WsReachable(s) ==
    [s EXCEPT !.ws_open = TRUE,
              !.ev = [i \in DOMAIN @ |->
                         IF @[i].k = "update" /\ @[i].out = "err"
                         THEN [@[i] EXCEPT !.out = "ok"] ELSE @[i]]]

\* C14: a call made while the receiving half of ws is gone gives what the
\* same call gives with it alive: the same fields, return value, commands
\* sent, channels made and tasks started, and the same update() calls, one
\* send on ws each, whose failure changes nothing; ws itself is the same
\* handle after the call as before.
C14_PublishFailureSwallowed ==
    (InCall /\ pre.ws # None /\ ~pre.ws_open) =>
        /\ WsReachable(Post) = Apply(op, WsReachable(pre))
        /\ ws = pre.ws
        /\ \A i \in 1..Len(ev) : ev[i].k = "update" => ev[i].out = "err"
        /\ (pre.rx_open => Starts(ev) = <<>>)

\* A call with the receiving half of ws gone and the task alive: the send
\* on ws failed, the command went on the queue, and no task was started.
C14_Witness ==
    /\ InCall
    /\ ws # None
    /\ ~ws_open
    /\ pre.rx_open
    /\ Len(Updates(ev)) = 1
    /\ Updates(ev)[1].out = "err"
    /\ Len(Sends(ev)) = 1
    /\ Starts(ev) = <<>>

\* ----------------------------------------------------------------- C15
\* C15: every map update() builds during a call carries channel_id (or
\* its absence), guild_id, self_deaf and self_mute as the handler holds
\* them when the call returns (no method writes one of them after an
\* update()); join(c) on a handler just made calls update() exactly once,
\* with {c, guild_id, false, false}, and sends no command; every update()
\* of leave() carries channel_id absent.
C15_EnvelopeIsState ==
    InCall =>
        /\ \A i \in 1..Len(ev) :
               ev[i].k = "update" =>
                   ev[i].d = [channel_id |-> channel_id,
                              guild_id |-> guild_id,
                              self_deaf |-> self_deaf,
                              self_mute |-> self_mute]
        /\ (op.name = "join" /\ pre.nsent = 0
              /\ Fields(pre) = <<None, None, FALSE, FALSE, None, None>>) =>
               /\ Len(ev) = 1
               /\ ev[1].k = "update"
               /\ ev[1].d = [channel_id |-> op.channel_id,
                             guild_id |-> guild_id,
                             self_deaf |-> FALSE, self_mute |-> FALSE]
               /\ ev[1].out = (IF ws = None THEN "none"
                               ELSE IF ws_open THEN "ok" ELSE "err")
               /\ Channel(Post) = Channel(pre)
        /\ op.name = "leave" =>
               \A i \in 1..Len(ev) :
                   ev[i].k = "update" => ev[i].d.channel_id = None

\* A map went on ws from a handler in a channel, deafened and not muted.
C15_Witness ==
    /\ InCall
    /\ Published(ev) # <<>>
    /\ channel_id # None
    /\ self_deaf
    /\ ~self_mute
    /\ Published(ev)[1].d = [channel_id |-> channel_id, guild_id |-> guild_id,
                             self_deaf |-> TRUE, self_mute |-> FALSE]

\* ----------------------------------------------------------------- C16
\* C16: update_state for the handler's own user with no channel, called
\* with channel_id present, leaves channel_id absent, sends exactly one
\* Disconnect and calls update() with channel_id absent.
C16_UpdateStateLeaves ==
    (/\ op.name = "update_state"
     /\ op.voice_state.user_id = user_id
     /\ op.voice_state.channel_id = None
     /\ pre.channel_id # None) =>
        /\ channel_id = None
        /\ Len(Sends(ev)) = 1
        /\ Sends(ev)[1].status = Disconnect
        /\ Updates(ev) # <<>>
        /\ \A i \in 1..Len(Updates(ev)) : Updates(ev)[i].d.channel_id = None

\* ----------------------------------------------------------------- C17
\* C17 as claimed: update_server(endpoint, token) always leaves token set
\* to the one given; with endpoint absent and channel_id present it leaves
\* channel_id absent, sends exactly one Disconnect and no Connect, whatever
\* session_id is, and calls update() exactly once; with endpoint and
\* channel_id both absent it makes no call.
C17_ForcedLeaveOnePublish ==
    op.name = "update_server" =>
        /\ token = op.token
        /\ op.endpoint = None =>
               /\ channel_id = None
               /\ pre.channel_id # None =>
                      /\ Len(Sends(ev)) = 1
                      /\ Sends(ev)[1].status = Disconnect
                      /\ Len(Updates(ev)) = 1
               /\ pre.channel_id = None =>
                      /\ ev = <<>>
                      /\ Channel(Post) = Channel(pre)

\* C17, amended: as C17_ForcedLeaveOnePublish, but with endpoint absent
\* and channel_id present update() is called once after the Disconnect
\* when the send found the task's receiving half alive and twice when it
\* did not, each time with channel_id absent; the other fields are as
\* before the call.
C17_ForcedLeave ==
    op.name = "update_server" =>
        /\ token = op.token
        /\ op.endpoint = None =>
               /\ channel_id = None
               /\ <<endpoint, self_deaf, self_mute, session_id>>
                  = <<pre.endpoint, pre.self_deaf, pre.self_mute,
                      pre.session_id>>
               /\ pre.channel_id # None =>
                      /\ Len(Sends(ev)) = 1
                      /\ Sends(ev)[1].status = Disconnect
                      /\ ev[1].k = "send"
                      /\ Len(Updates(ev)) = (IF pre.rx_open THEN 1 ELSE 2)
                      /\ \A i \in 1..Len(Updates(ev)) :
                             Updates(ev)[i].d.channel_id = None
               /\ pre.channel_id = None =>
                      /\ ev = <<>>
                      /\ Channel(Post) = Channel(pre)

\* update_server with no endpoint and a new token on a handler in a
\* channel that holds all three of endpoint, session_id and token: the
\* token is replaced, a Disconnect is sent and no Connect.
C17_Witness ==
    /\ op.name = "update_server"
    /\ op.endpoint = None
    /\ pre.channel_id # None
    /\ Complete(pre)
    /\ pre.token # op.token
    /\ token = op.token
    /\ Len(Sends(ev)) = 1
    /\ Sends(ev)[1].status = Disconnect

\* ----------------------------------------------------------------- C18
\* C18: update_server and update_state send a Connect only with channel_id
\* present, and a call of either that takes channel_id from present to
\* absent sends a Disconnect after any Connect, so that the last of
\* Connect and Disconnect sent is a Connect only while channel_id is
\* present.
C18_ConnectOnlyInChannel ==
    op.name \in {"update_server", "update_state"} =>
        LET s == Sends(ev)
        IN  /\ (\E i \in 1..Len(s) : s[i].status.type = "Connect") =>
                   channel_id # None
            /\ (pre.channel_id # None /\ channel_id = None) =>
                   /\ s # <<>>
                   /\ s[Len(s)].status = Disconnect

\* ----------------------------------------------------------------- C19
\* C19: no method but deafen and mute writes self_deaf or self_mute;
\* deafen writes self_deaf only and mute self_mute only; so the map that
\* join(c) hands to update() carries the flags as they were before the
\* join, whatever leave() came in between.
C19_SettingsPersist ==
    InCall =>
        /\ op.name \notin {"deafen", "mute"} =>
               <<self_deaf, self_mute>> = <<pre.self_deaf, pre.self_mute>>
        /\ op.name = "deafen" =>
               <<self_deaf, self_mute>> = <<op.deaf, pre.self_mute>>
        /\ op.name = "mute" =>
               <<self_deaf, self_mute>> = <<pre.self_deaf, op.mute>>
        /\ op.name = "join" =>
               /\ Len(Updates(ev)) = 1
               /\ Updates(ev)[1].d.self_deaf = pre.self_deaf
               /\ Updates(ev)[1].d.self_mute = pre.self_mute

\* join after a leave() whose Disconnect is still on the queue, on a
\* handler deafened and muted before: the map put on ws carries both flags.
C19_Witness ==
    /\ op.name = "join"
    /\ pre.channel_id = None
    /\ \E i \in 1..Len(queue) : queue[i].status = Disconnect
    /\ Len(Published(ev)) = 1
    /\ Published(ev)[1].d.self_deaf
    /\ Published(ev)[1].d.self_mute

\* ----------------------------------------------------------------- C20
\* C20: no method takes endpoint, session_id or token from present to
\* absent; update_server with no endpoint records the token and leaves
\* endpoint as it was; update_state with no channel leaves session_id as
\* it was; so a handler that held all three before a call holds them after
\* it, and after leave() or a drop a connect() on the handler returns true
\* and sends one Connect built from the endpoint, session_id and token
\* held before.
C20_CredentialsKept ==
    InCall =>
        /\ pre.endpoint # None => endpoint # None
        /\ pre.session_id # None => session_id # None
        /\ pre.token # None => token # None
        /\ (op.name = "update_server" /\ op.endpoint = None) =>
               /\ endpoint = pre.endpoint
               /\ token = op.token
        /\ (op.name = "update_state" /\ op.voice_state.channel_id = None) =>
               session_id = pre.session_id
        /\ Complete(pre) => Complete(Post)
        /\ (op.name \in {"leave", "drop"} /\ Complete(pre)) =>
               LET c == connect([Post EXCEPT !.ev = <<>>])
               IN  /\ c.ret = "true"
                   /\ Len(Sends(c.ev)) = 1
                   /\ IsConnectOf(Sends(c.ev)[1].status, pre)

\* leave() on a handler in a channel that holds all three: the Disconnect
\* is sent and all three are still held.
C20_Witness ==
    /\ op.name = "leave"
    /\ pre.channel_id # None
    /\ Complete(pre)
    /\ Complete(Post)
    /\ Len(Sends(ev)) = 1
    /\ Sends(ev)[1].status = Disconnect
    /\ connect(Post).ret = "true"

====
